---- MODULE Spec2Model ----
(***************************************************************************)
(* Model of KarmaView's MainWidget (src/KarmaView/mainwidget.cpp): the     *)
(* deferred-shading frame pipeline, its render targets and framebuffers,   *)
(* the current/previous camera pair, the channel selection and the mesh    *)
(* reload, as a state machine whose actions are the widget's handlers.     *)
(***************************************************************************)
EXTENDS Integers, Sequences, FiniteSets, TLC

(***************************************************************************)
(* Bounds of the model.                                                    *)
(***************************************************************************)
\* window widths and heights handed to resizeGL are drawn from 1..MaxDim
MaxDim == 2
\* number of distinct .obj files the file dialog can return
NumFiles == 2
\* camera orientation and position are kept modulo CamMod
CamMod == 2
\* the largest width or height of a widget (resizeGL's arguments)
MaxWidgetSize == 16777215

(***************************************************************************)
(* Program constants.                                                      *)
(***************************************************************************)
DEFERRED_TEXTURES == 4
DepthData == 0
LinearDepthData == 1
PositionData == 2
NormalData == 3
DiffuseData == 4
SpecularData == 5
VelocityData == 6
AmbientPass == 7
MotionBlurPass == 8
LightPass == 9
DeferredDataCount == 10
\* a C++ float has a 24 bit significand
FloatBits == 24

\* fragFiles[] of initializeGL: the program compiled for each DeferredData
fragFiles ==
  << "depth", "linearDepth", "position", "normal", "diffuse", "specular",
     "velocity", "ambient", "motion", "backbuffer" >>

\* the values of OpenGLFramebufferObject::Status the code distinguishes
Status ==
  { "Complete", "IncompleteAttachment", "IncompleteMissingAttachment",
    "IncompleteDrawBuffer", "IncompleteReadBuffer", "Unsupported" }

FatalMessage_noReadBufferCase(s) ==
  CASE s = "IncompleteAttachment" -> "Incomplete Attachment"
    [] s = "IncompleteMissingAttachment" -> "Incomplete Missing Attachment"
    [] s = "IncompleteDrawBuffer" -> "Incomplete Draw Buffer"
    [] s = "Unsupported" -> "Unsupported"
    [] OTHER -> ""

\* the argument of qFatal for a framebuffer status ("" : no qFatal)
FatalMessage(s) ==
  CASE s = "Complete" -> ""
    [] s = "IncompleteAttachment" -> "Incomplete Attachment"
    [] s = "IncompleteMissingAttachment" -> "Incomplete Missing Attachment"
    [] s = "IncompleteDrawBuffer" -> "Incomplete Draw Buffer"
    [] s = "IncompleteReadBuffer" -> "Incomplete Read Buffer"
    [] s = "Unsupported" -> "Unsupported"
    [] OTHER -> ""

(***************************************************************************)
(* int -> float -> int, as in m_width = w and t.setSize(m_width, m_height) *)
(***************************************************************************)
RECURSIVE Pow2(_)
Pow2(n) == IF n = 0 THEN 1 ELSE 2 * Pow2(n - 1)

RECURSIVE BitLength(_)
BitLength(n) == IF n = 0 THEN 0 ELSE 1 + BitLength(n \div 2)

\* the float nearest to the int n >= 0 (ties to even), as an exact integer
IntToFloat(n) ==
  IF BitLength(n) <= FloatBits THEN n
  ELSE LET ulp == Pow2(BitLength(n) - FloatBits)
           lo  == (n \div ulp) * ulp
           rem == n - lo
       IN  IF 2 * rem < ulp THEN lo
           ELSE IF 2 * rem > ulp THEN lo + ulp
           ELSE IF (lo \div ulp) % 2 = 0 THEN lo ELSE lo + ulp

\* float -> int truncates; the floats of the model are whole numbers
FloatToInt(f) == f

(***************************************************************************)
(* The OpenGL context: the pipeline state the code sets. A handler's        *)
(* commands are kept in order; the state each was issued in follows from   *)
(* the state at the handler's entry.                                       *)
(***************************************************************************)
\* the context after creation (OpenGL's initial values)
GLDefault ==
  [ fbo |-> "default", depthTest |-> FALSE, depthMask |-> TRUE,
    blend |-> FALSE, blendFunc |-> "ONE,ZERO",
    depthFunc |-> "LESS", cullFace |-> FALSE, program |-> "none" ]

Cmd(op, arg) == [ op |-> op, arg |-> arg ]

\* the piece of pipeline state a command sets ("" : none) ...
Field(c) ==
  CASE c.op \in { "glEnable", "glDisable" } /\ c.arg = "DEPTH_TEST" -> "depthTest"
    [] c.op \in { "glEnable", "glDisable" } /\ c.arg = "BLEND" -> "blend"
    [] c.op \in { "glEnable", "glDisable" } /\ c.arg = "CULL_FACE" -> "cullFace"
    [] c.op = "glDepthMask" -> "depthMask"
    [] c.op = "glDepthFunc" -> "depthFunc"
    [] c.op = "glBlendFunc" -> "blendFunc"
    [] c.op \in { "fbo.bind", "fbo.release", "glBindFramebuffer" } -> "fbo"
    [] c.op \in { "program.bind", "program.release" } -> "program"
    [] OTHER -> ""

\* ... and the value it sets it to
Value(c) ==
  CASE c.op = "glEnable" -> TRUE
    [] c.op = "glDisable" -> FALSE
    [] c.op = "glDepthMask" -> (c.arg = "TRUE")
    [] c.op = "fbo.release" -> "zero"
    [] c.op = "program.release" -> "none"
    [] OTHER -> c.arg

\* the effect of one command on the pipeline state
Apply(g, c) == IF Field(c) = "" THEN g ELSE [g EXCEPT ![Field(c)] = Value(c)]

\* the pipeline state before command i of prog, issued in order from state g:
\* each piece is what the last command before i that sets it left there
Before(g, prog, i) ==
  [ f \in DOMAIN g |->
      LET setters == { j \in 1..(i - 1) : Field(prog[j]) = f }
      IN  IF setters = {} THEN g[f]
          ELSE Apply(g, prog[CHOOSE j \in setters : \A k \in setters : k <= j])[f] ]

\* the pipeline state after the commands of prog, issued in order from g
Issue(g, prog) == Before(g, prog, Len(prog) + 1)

(***************************************************************************)
(* The command streams of the handlers.                                    *)
(***************************************************************************)
\* the sixteen m_matrixBlock.write calls of paintGL, in source order
MatrixBlockWrites ==
  << Cmd("ubo.write", "worldToView"), Cmd("ubo.write", "viewToPersp"),
     Cmd("ubo.write", "worldToPersp"), Cmd("ubo.write", "viewToWorld"),
     Cmd("ubo.write", "perspToView"), Cmd("ubo.write", "perspToWorld"),
     Cmd("ubo.write", "prevWorldToView"), Cmd("ubo.write", "prevWorldToPersp"),
     Cmd("ubo.write", "prevViewToWorld"), Cmd("ubo.write", "prevPerspToWorld"),
     Cmd("ubo.write", "ambientColor"), Cmd("ubo.write", "depthFar"),
     Cmd("ubo.write", "depthNear"), Cmd("ubo.write", "depthDiff"),
     Cmd("ubo.write", "width"), Cmd("ubo.write", "height") >>

\* "Prepare Scene"
PrepareScene ==
  MatrixBlockWrites \o
  << Cmd("group.update", "instanceGroup"), Cmd("group.update", "floorGroup"),
     Cmd("group.update", "pointLightGroup") >>

\* "Generate G Buffer"
GenerateGBuffer ==
  << Cmd("fbo.bind", "deferredBuffer"), Cmd("glClear", "COLOR|DEPTH"),
     Cmd("group.draw", "floorGroup"), Cmd("group.draw", "instanceGroup"),
     Cmd("glBindFramebuffer", "default") >>

LightPassCmds_restoresLequal ==
  << Cmd("fbo.bind", "lightBuffer"), Cmd("glClear", "COLOR"),
     Cmd("glEnable", "BLEND"), Cmd("glBlendFunc", "ONE,ONE"),
     Cmd("glDepthFunc", "GREATER"), Cmd("program.bind", "pointLight"),
     Cmd("group.draw", "pointLightGroup"), Cmd("glDepthFunc", "LEQUAL"),
     Cmd("glDisable", "BLEND"), Cmd("glBindFramebuffer", "default") >>

LightPassCmds_staysBound ==
  << Cmd("fbo.bind", "lightBuffer"), Cmd("glClear", "COLOR"),
     Cmd("glEnable", "BLEND"), Cmd("glBlendFunc", "ONE,ONE"),
     Cmd("glDepthFunc", "GREATER"), Cmd("program.bind", "pointLight"),
     Cmd("group.draw", "pointLightGroup"), Cmd("glDepthFunc", "LESS"),
     Cmd("glDisable", "BLEND") >>

\* "Light Pass"
LightPassCmds ==
  << Cmd("fbo.bind", "lightBuffer"), Cmd("glClear", "COLOR"),
     Cmd("glEnable", "BLEND"), Cmd("glBlendFunc", "ONE,ONE"),
     Cmd("glDepthFunc", "GREATER"), Cmd("program.bind", "pointLight"),
     Cmd("group.draw", "pointLightGroup"), Cmd("glDepthFunc", "LESS"),
     Cmd("glDisable", "BLEND"), Cmd("glBindFramebuffer", "default") >>

NeedsLightPass_composedOnly(buffer) == buffer = LightPass

NeedsLightPass_velocity(buffer) ==
  buffer = LightPass \/ buffer = MotionBlurPass \/ buffer = VelocityData

\* the condition under which drawBackbuffer runs the light pass
NeedsLightPass(buffer) == buffer = LightPass \/ buffer = MotionBlurPass

drawBackbuffer_fixedProgram(buffer) ==
  << Cmd("glDisable", "DEPTH_TEST"), Cmd("glDepthMask", "FALSE"),
     Cmd("texture.bind", "0:deferred0"), Cmd("texture.bind", "1:deferred1"),
     Cmd("texture.bind", "2:deferred2"), Cmd("texture.bind", "3:backBuffer"),
     Cmd("texture.bind", "4:deferred3"), Cmd("texture.bind", "5:depth") >> \o
  (IF NeedsLightPass(buffer) THEN LightPassCmds ELSE << >>) \o
  << Cmd("program.bind", fragFiles[LightPass + 1]), Cmd("mesh.draw", "quadGL"),
     Cmd("program.release", fragFiles[LightPass + 1]),
     Cmd("texture.release", "backBuffer"),
     Cmd("glDepthMask", "TRUE"), Cmd("glEnable", "DEPTH_TEST") >>

\* MainWidgetPrivate::drawBackbuffer for the selected channel
drawBackbuffer(buffer) ==
  << Cmd("glDisable", "DEPTH_TEST"), Cmd("glDepthMask", "FALSE"),
     Cmd("texture.bind", "0:deferred0"), Cmd("texture.bind", "1:deferred1"),
     Cmd("texture.bind", "2:deferred2"), Cmd("texture.bind", "3:backBuffer"),
     Cmd("texture.bind", "4:deferred3"), Cmd("texture.bind", "5:depth") >> \o
  (IF NeedsLightPass(buffer) THEN LightPassCmds ELSE << >>) \o
  << Cmd("program.bind", fragFiles[buffer + 1]), Cmd("mesh.draw", "quadGL"),
     Cmd("program.release", fragFiles[buffer + 1]),
     Cmd("texture.release", "backBuffer"),
     Cmd("glDepthMask", "TRUE"), Cmd("glEnable", "DEPTH_TEST") >>

paintFrame_drawBeforeUpdate(buffer) ==
  << Cmd("program.bind", "gbuffer") >> \o GenerateGBuffer \o PrepareScene \o
  << Cmd("program.release", "gbuffer") >> \o drawBackbuffer(buffer) \o
  << Cmd("OpenGLDebugDraw.draw", ""), Cmd("OpenGLWidget.paintGL", "") >>

\* the commands of one executed frame
paintFrame(buffer) ==
  << Cmd("program.bind", "gbuffer") >> \o PrepareScene \o GenerateGBuffer \o
  << Cmd("program.release", "gbuffer") >> \o drawBackbuffer(buffer) \o
  << Cmd("OpenGLDebugDraw.draw", ""), Cmd("OpenGLWidget.paintGL", "") >>

paintGLCmds_ungated(paused, buffer) == paintFrame(buffer)

\* what paintGL issues: nothing at all while paused
paintGLCmds(paused, buffer) == IF ~paused THEN paintFrame(buffer) ELSE << >>

(***************************************************************************)
(* Meshes. What KHalfEdgeMesh parses from a file: half-edges with their    *)
(* destination vertex, next half-edge and owning face (0: none); indices   *)
(* start at 1. File 1 is closed (two triangles back to back); file k > 1   *)
(* is one polygon of k + 2 edges, whose outer loop has no face.            *)
(***************************************************************************)
Files == 1..NumFiles

HalfEdge(to, next, face) == [ to |-> to, next |-> next, face |-> face ]

Polygon(n) ==
  [ i \in 1..(2 * n) |->
      IF i <= n THEN HalfEdge((i % n) + 1, (i % n) + 1, 1)
      ELSE HalfEdge(i - n, n + (((i - n) + n - 2) % n) + 1, 0) ]

halfEdges(file) ==
  IF file = 1
  THEN << HalfEdge(2, 2, 1), HalfEdge(3, 3, 1), HalfEdge(1, 1, 1),
          HalfEdge(1, 5, 2), HalfEdge(3, 6, 2), HalfEdge(2, 4, 2) >>
  ELSE Polygon(file + 2)

\* SELECT FROM (edge : halfEdges) WHERE (edge.face == 0)
\*   JOIN (vertex(edge.to)->position, vertex(halfEdge(edge.next)->to)->position)
\* a vertex's position is written as its index
RECURSIVE Select(_, _)
Select(edges, i) ==
  IF i > Len(edges) THEN << >>
  ELSE (IF edges[i].face = 0
        THEN << << edges[i].to, edges[edges[i].next].to >> >>
        ELSE << >>) \o Select(edges, i + 1)

query_noWhere(file) ==
  [ i \in 1..Len(halfEdges(file)) |->
      << halfEdges(file)[i].to, halfEdges(file)[halfEdges(file)[i].next].to >> ]

query(file) == Select(halfEdges(file), 1)

\* a mesh pointer: the allocation it names (gen; 0 is Q_NULLPTR) and the
\* file that allocation was built from
NullMesh == [ gen |-> 0, file |-> 0 ]

(***************************************************************************)
(* Render targets and framebuffers.                                        *)
(***************************************************************************)
TextureNames ==
  { "deferred0", "deferred1", "deferred2", "deferred3", "backBuffer", "depth" }

NoTexture == [ w |-> 0, h |-> 0, format |-> "none" ]

constructDeferredTexture_square(width, height, f) ==
  [ w |-> FloatToInt(width), h |-> FloatToInt(width), format |-> f ]

\* constructDeferredTexture: storage of the widget's recorded size
constructDeferredTexture(width, height, f) ==
  [ w |-> FloatToInt(width), h |-> FloatToInt(height), format |-> f ]

\* a framebuffer object: colour attachments 0..4, depth attachment, the
\* enabled draw buffers and the status last reported for it
NoFramebuffer ==
  [ color |-> << "none", "none", "none", "none", "none" >>, depth |-> "none",
    drawBuffers |-> {}, status |-> "unchecked" ]

DeferredWiring_fourDrawBuffers ==
  [ color |-> << "backBuffer", "deferred0", "deferred1", "deferred2", "deferred3" >>,
    depth |-> "depth", drawBuffers |-> {1, 2, 3, 4} ]

\* the wiring updateBackbuffer gives m_deferredBuffer
DeferredWiring ==
  [ color |-> << "backBuffer", "deferred0", "deferred1", "deferred2", "deferred3" >>,
    depth |-> "depth", drawBuffers |-> {0, 1, 2, 3, 4} ]

LightWiring_backBuffer ==
  [ color |-> << "backBuffer", "none", "none", "none", "none" >>,
    depth |-> "depth", drawBuffers |-> {0} ]

\* the wiring updateBackbuffer gives m_lightBuffer
LightWiring ==
  [ color |-> << "deferred3", "none", "none", "none", "none" >>,
    depth |-> "depth", drawBuffers |-> {0} ]

Wire(wiring, status) ==
  [ color |-> wiring.color, depth |-> wiring.depth,
    drawBuffers |-> wiring.drawBuffers, status |-> status ]

(***************************************************************************)
(* The camera: orientation about the up and right axes and position along  *)
(* the forward, right and up axes, in whole steps modulo CamMod.           *)
(***************************************************************************)
Camera0 == [ yaw |-> 0, pitch |-> 0, pos |-> << 0, 0, 0 >> ]

rotate(cam, dx, dy) ==
  [cam EXCEPT !.yaw = (@ + CamMod - (dx % CamMod)) % CamMod,
              !.pitch = (@ + CamMod - (dy % CamMod)) % CamMod]

Bit(b) == IF b THEN 1 ELSE 0

\* the translation vector built from the W S / A D / Q E keys
translation(keys) ==
  << Bit("W" \in keys) - Bit("S" \in keys),
     Bit("D" \in keys) - Bit("A" \in keys),
     Bit("Q" \in keys) - Bit("E" \in keys) >>

translate(cam, speed, t) ==
  [cam EXCEPT !.pos = [ i \in 1..3 |-> (@[i] + CamMod * 3 + speed * t[i]) % CamMod ]]

\* the m_matrixBlock slots that hold the camera pair
NoBlock == [ written |-> FALSE, worldToView |-> Camera0, prevWorldToView |-> Camera0 ]

(***************************************************************************)
(* Input: what KInputManager reports during one update event.              *)
(***************************************************************************)
DigitKeys == << "0", "1", "2", "3", "4", "5", "6", "7", "8", "9" >>

Digits == { DigitKeys[i] : i \in 1..Len(DigitKeys) }

Input(rightButton, ctrl, dx, dy, keys) ==
  [ rightButton |-> rightButton, ctrl |-> ctrl, dx |-> dx, dy |-> dy, keys |-> keys ]

NoInput == Input(FALSE, FALSE, 0, 0, {})

\* numeric keys only: none, one, or one of a few chords
Chords == { {"0", "5"}, {"8", "9"}, {"1", "2", "7"} }

KeyInputs ==
  { Input(FALSE, FALSE, 0, 0, ks) :
      ks \in { k \in SUBSET Digits : Cardinality(k) <= 1 } \cup Chords }

\* Ctrl+O, alone or with one numeric key
ReloadInputs == { Input(FALSE, TRUE, 0, 0, {"O"} \cup ks) : ks \in {{}, {"3"}} }

\* right button held: look and fly
CameraInputs ==
  { Input(TRUE, c, dx, 0, ks) : c \in BOOLEAN, dx \in 0..1, ks \in {{}, {"W"}, {"W", "S"}} }
  \cup { Input(FALSE, FALSE, 1, 0, {"W"}) }

\* numeric keys held at once: none, one, any two, and key 0 with all keys
\* up to some key (the last: all ten)
ChordInputs ==
  { Input(FALSE, FALSE, 0, 0, ks) :
      ks \in { {} } \cup { { a, b } : a \in Digits, b \in Digits }
             \cup { { DigitKeys[j + 1] : j \in 0..n } : n \in 2..9 } }

ChangeBuffer_firstKeyWins(buffer, keys, k) ==
  IF keys \cap Digits = {} THEN buffer
  ELSE LET n == CHOOSE i \in 0..9 :
                  /\ DigitKeys[i + 1] \in keys
                  /\ \A j \in 0..9 : DigitKeys[j + 1] \in keys => i <= j
       IN  IF n = 0 THEN LightPass ELSE n - 1

ChangeBuffer_keyIsIndex(buffer, keys, k) ==
  IF keys \cap Digits = {} THEN buffer
  ELSE CHOOSE n \in 0..9 :
         /\ DigitKeys[n + 1] \in keys
         /\ \A j \in 0..9 : DigitKeys[j + 1] \in keys => j <= n

\* the "Change Buffer" block of updateEvent: ten ifs in a row, key 0 first
RECURSIVE ChangeBuffer(_, _, _)
ChangeBuffer(buffer, keys, k) ==
  IF k > 9 THEN buffer
  ELSE ChangeBuffer(IF DigitKeys[k + 1] \in keys
                    THEN (IF k = 0 THEN LightPass ELSE k - 1)
                    ELSE buffer,
                    keys, k + 1)

\* the "Camera Transformation" block of updateEvent
MoveCamera(cam, in) ==
  IF in.rightButton
  THEN translate(rotate(cam, in.dx, in.dy),
                 IF in.ctrl THEN 1 ELSE 3, translation(in.keys))
  ELSE cam

snapshotCamera_afterInput(cam, in) ==
  IF in.rightButton
  THEN translate(rotate(cam, in.dx, in.dy),
                 IF in.ctrl THEN 1 ELSE 3, translation(in.keys))
  ELSE cam

\* p.m_cameraPrev = p.m_camera; the first statement of updateEvent
snapshotCamera(cam, in) == cam

\* what updateEvent does up to the Ctrl+O test, in source order
updateEventCmds(in) ==
  << Cmd("assign", "m_cameraPrev = m_camera"),
     Cmd("instances.rotate", ""), Cmd("pointLights.setTranslation", "") >> \o
  (IF in.rightButton
   THEN << Cmd("camera.rotate", "LocalUp"), Cmd("camera.rotate", "right"),
           Cmd("camera.translate", "") >>
   ELSE << >>)

\* what updateEvent does after the Ctrl+O test
updateTailCmds == << Cmd("transform.rotate", "drag") >>

(***************************************************************************)
(* State.                                                                  *)
(***************************************************************************)
VARIABLES
  phase,            \* "constructed", "initialized" (initializeGL done),
                    \* "running" (sized), "fatal" (qFatal was called)
  pc,               \* where the running handler stands; "idle": none runs
  caller,           \* who called loadObj
  input,            \* the input of the update event in progress
  fileName,         \* the argument of loadObj / result of the dialog (0: null)
  oldValue,         \* loadObj's local
  m_camera, m_cameraPrev, m_projection, m_width, m_height,
  m_openGLMesh, m_halfEdgeMesh, m_boundaries,
  instanceMesh,     \* the mesh m_instanceGroup draws
  live,             \* the mesh allocations not deleted: <<kind, gen>>
  m_paused, m_buffer,
  textures, m_deferredBuffer, m_lightBuffer,
  m_matrixBlock,
  gl,               \* the pipeline state of the OpenGL context
  cmds,             \* the commands of the latest handler call
  glEntry,          \* the pipeline state when that handler was called
  handler,          \* the latest handler called
  seen,             \* the mesh state the latest executed frame drew from
  fatal             \* the message of qFatal ("" : none)

meshVars == << m_openGLMesh, m_halfEdgeMesh, m_boundaries, instanceMesh, live >>
targetVars == << textures, m_deferredBuffer, m_lightBuffer, m_width, m_height, m_projection >>
cameraVars == << m_camera, m_cameraPrev >>
loadVars == << caller, fileName, oldValue >>

vars ==
  << phase, pc, caller, input, fileName, oldValue, m_camera, m_cameraPrev,
     m_projection, m_width, m_height, m_openGLMesh, m_halfEdgeMesh,
     m_boundaries, instanceMesh, live, m_paused, m_buffer, textures,
     m_deferredBuffer, m_lightBuffer, m_matrixBlock, gl, cmds, glEntry,
     handler, seen, fatal >>

NoBoundaries == [ gen |-> 0, file |-> 0, edges |-> << >> ]

\* what a frame has before it of the loaded mesh
MeshView(instance, openGL, halfEdge, boundaries, alive) ==
  [ instance |-> instance, openGL |-> openGL, halfEdge |-> halfEdge,
    boundaries |-> boundaries, live |-> alive ]

NoMeshView == MeshView(NullMesh, NullMesh, NullMesh, NoBoundaries, {})

\* MainWidgetPrivate::MainWidgetPrivate and MainWidget::MainWidget
Init ==
  /\ phase = "constructed"
  /\ pc = "idle"
  /\ caller = "none"
  /\ input = NoInput
  /\ fileName = 0
  /\ oldValue = FALSE
  /\ m_camera = Camera0
  /\ m_cameraPrev = Camera0
  /\ m_projection = << 0, 0 >>
  /\ m_width = 1
  /\ m_height = 1
  /\ m_openGLMesh = NullMesh
  /\ m_halfEdgeMesh = NullMesh
  /\ m_boundaries = NoBoundaries
  /\ instanceMesh = NullMesh
  /\ live = {}
  /\ m_paused = FALSE
  /\ m_buffer = LightPass
  /\ textures = [ t \in TextureNames |-> NoTexture ]
  /\ m_deferredBuffer = NoFramebuffer
  /\ m_lightBuffer = NoFramebuffer
  /\ m_matrixBlock = NoBlock
  /\ gl = GLDefault
  /\ cmds = << >>
  /\ glEntry = GLDefault
  /\ handler = "constructor"
  /\ seen = NoMeshView
  /\ fatal = ""

\* a handler call is recorded
Called(h) == handler' = h

(***************************************************************************)
(* MainWidget::initializeGL, up to its call of loadObj.                    *)
(***************************************************************************)
DeferredProgramSetup_skipsLast(i) ==
  [ k \in 1..(2 * (DeferredDataCount - 1 - i)) |->
      Cmd(IF k % 2 = 1 THEN "program.bind" ELSE "program.release",
          fragFiles[i + ((k + 1) \div 2)]) ]

\* for (int i = 0; i < DeferredDataCount; ++i): m_deferredPrograms[i]
RECURSIVE DeferredProgramSetup(_)
DeferredProgramSetup(i) ==
  IF i >= DeferredDataCount THEN << >>
  ELSE << Cmd("program.bind", fragFiles[i + 1]),
          Cmd("program.release", fragFiles[i + 1]) >> \o DeferredProgramSetup(i + 1)

initializeGLCmds ==
  << Cmd("glEnable", "CULL_FACE"), Cmd("glEnable", "DEPTH_TEST"),
     Cmd("glClearDepth", "1"), Cmd("glDepthFunc", "LEQUAL"),
     Cmd("glClearColor", "0,0,0,1"), Cmd("ubo.allocate", "GlobalBuffer"),
     Cmd("program.bind", "pointLight"), Cmd("program.release", "pointLight") >> \o
  DeferredProgramSetup(0)

InitializeGL ==
  /\ phase = "constructed" /\ pc = "idle"
  /\ gl' = Issue(gl, initializeGLCmds)
  /\ cmds' = initializeGLCmds
  /\ glEntry' = gl
  /\ caller' = "initializeGL"
  /\ fileName' = 1
  /\ pc' = "loadObj"
  /\ Called("initializeGL")
  /\ UNCHANGED << phase, input, oldValue, cameraVars, meshVars, targetVars,
                  m_paused, m_buffer, m_matrixBlock, seen, fatal >>

initializeGLTailCmds == << Cmd("program.release", "gbuffer") >>

\* the rest of initializeGL, after loadObj returned
InitializeGLTail ==
  /\ pc = "return" /\ caller = "initializeGL"
  /\ gl' = Issue(gl, initializeGLTailCmds)
  /\ cmds' = cmds \o initializeGLTailCmds
  /\ phase' = "initialized"
  /\ pc' = "idle"
  /\ caller' = "none"
  /\ UNCHANGED << input, fileName, oldValue, cameraVars, meshVars, targetVars,
                  m_paused, m_buffer, m_matrixBlock, glEntry, handler, seen, fatal >>

(***************************************************************************)
(* MainWidgetPrivate::loadObj, statement by statement.                     *)
(***************************************************************************)
LoadPcs == { "loadObj", "delete", "halfEdgeMesh", "openGLMesh", "query", "resume" }

UsedGens ==
  { m_openGLMesh.gen, m_halfEdgeMesh.gen, instanceMesh.gen, m_boundaries.gen }
  \cup { x[2] : x \in live }

\* a new allocation is none of those a pointer still names
FreshGen == CHOOSE n \in 1..9 : n \notin UsedGens /\ \A k \in 1..(n - 1) : k \in UsedGens

PauseOnEntry_notTaken(paused) == paused

\* bool oldValue = m_paused; m_paused = true;
PauseOnEntry(paused) == TRUE

LoadObjPause ==
  /\ pc = "loadObj"
  /\ oldValue' = m_paused
  /\ m_paused' = PauseOnEntry(m_paused)
  /\ pc' = "delete"
  /\ UNCHANGED << phase, caller, input, fileName, cameraVars, meshVars, targetVars,
                  m_buffer, m_matrixBlock, gl, cmds, glEntry, handler, seen, fatal >>

\* delete m_openGLMesh; delete m_halfEdgeMesh; m_boundaries.clear();
LoadObjDelete ==
  /\ pc = "delete"
  /\ live' = live \ { << "OpenGLMesh", m_openGLMesh.gen >>,
                      << "KHalfEdgeMesh", m_halfEdgeMesh.gen >> }
  /\ m_boundaries' = NoBoundaries
  /\ pc' = "halfEdgeMesh"
  /\ UNCHANGED << phase, loadVars, input, cameraVars, m_openGLMesh, m_halfEdgeMesh,
                  instanceMesh, targetVars, m_paused, m_buffer, m_matrixBlock,
                  gl, cmds, glEntry, handler, seen, fatal >>

\* m_halfEdgeMesh = new KHalfEdgeMesh(m_parent, fileName);
LoadObjHalfEdgeMesh ==
  /\ pc = "halfEdgeMesh"
  /\ m_halfEdgeMesh' = [ gen |-> FreshGen, file |-> fileName ]
  /\ live' = live \cup { << "KHalfEdgeMesh", FreshGen >> }
  /\ pc' = "openGLMesh"
  /\ UNCHANGED << phase, loadVars, input, cameraVars, m_openGLMesh, m_boundaries,
                  instanceMesh, targetVars, m_paused, m_buffer, m_matrixBlock,
                  gl, cmds, glEntry, handler, seen, fatal >>

\* m_openGLMesh = m_halfEdgeMesh->createOpenGLMesh(...);
\* m_instanceGroup->setMesh(m_openGLMesh);
LoadObjOpenGLMesh ==
  /\ pc = "openGLMesh"
  /\ m_openGLMesh' = m_halfEdgeMesh
  /\ instanceMesh' = m_halfEdgeMesh
  /\ live' = live \cup { << "OpenGLMesh", m_halfEdgeMesh.gen >> }
  /\ pc' = "query"
  /\ UNCHANGED << phase, loadVars, input, cameraVars, m_halfEdgeMesh, m_boundaries,
                  targetVars, m_paused, m_buffer, m_matrixBlock,
                  gl, cmds, glEntry, handler, seen, fatal >>

\* m_boundaries = query();
LoadObjQuery ==
  /\ pc = "query"
  /\ m_boundaries' = [ gen |-> m_halfEdgeMesh.gen, file |-> m_halfEdgeMesh.file,
                       edges |-> query(m_halfEdgeMesh.file) ]
  /\ pc' = "resume"
  /\ UNCHANGED << phase, loadVars, input, cameraVars, m_openGLMesh, m_halfEdgeMesh,
                  instanceMesh, live, targetVars, m_paused, m_buffer, m_matrixBlock,
                  gl, cmds, glEntry, handler, seen, fatal >>

ResumeOnExit_staysPaused(paused, old) == TRUE

ResumeOnExit_notRestored(paused, old) == paused

\* m_paused = oldValue;
ResumeOnExit(paused, old) == old

LoadObjResume ==
  /\ pc = "resume"
  /\ m_paused' = ResumeOnExit(m_paused, oldValue)
  /\ pc' = "return"
  /\ UNCHANGED << phase, loadVars, input, cameraVars, meshVars, targetVars,
                  m_buffer, m_matrixBlock, gl, cmds, glEntry, handler, seen, fatal >>

(***************************************************************************)
(* MainWidget::resizeGL and MainWidgetPrivate::updateBackbuffer.           *)
(***************************************************************************)
Dims == 1..MaxDim

\* as Dims, and the widest a widget gets
Sizes == Dims \cup { MaxWidgetSize }

TextureFormat(t) == IF t = "depth" THEN "Depth32F" ELSE "Rgba32F"

\* the six constructDeferredTexture calls
updateTextures(width, height) ==
  [ t \in TextureNames |-> constructDeferredTexture(width, height, TextureFormat(t)) ]

\* does the switch over a status end in qFatal
IsFatal(status) == FatalMessage(status) # ""

updateBackbufferCmds(sd, sl) ==
  << Cmd("texture.allocate", "deferred0"), Cmd("texture.allocate", "deferred1"),
     Cmd("texture.allocate", "deferred2"), Cmd("texture.allocate", "deferred3"),
     Cmd("texture.allocate", "backBuffer"), Cmd("texture.allocate", "depth"),
     Cmd("fbo.bind", "deferredBuffer"), Cmd("fbo.attach", "deferredBuffer"),
     Cmd("fbo.status", sd) >> \o
  (IF IsFatal(sd) THEN << Cmd("qFatal", FatalMessage(sd)) >>
   ELSE << Cmd("fbo.release", "deferredBuffer"),
           Cmd("fbo.bind", "lightBuffer"), Cmd("fbo.attach", "lightBuffer"),
           Cmd("fbo.status", sl) >> \o
        (IF IsFatal(sl) THEN << Cmd("qFatal", FatalMessage(sl)) >>
         ELSE << Cmd("fbo.release", "lightBuffer") >>))

\* qFatal(msg) aborts the process: of the widget nothing is left but the
\* record of the call and of the statuses reported
qFatal(msg, deferred, light, log) ==
  /\ phase' = "fatal"
  /\ fatal' = msg
  /\ m_deferredBuffer' = deferred
  /\ m_lightBuffer' = light
  /\ cmds' = log
  /\ handler' = "resizeGL"
  /\ pc' = "idle" /\ caller' = "none" /\ input' = NoInput /\ fileName' = 0
  /\ oldValue' = FALSE /\ m_camera' = Camera0 /\ m_cameraPrev' = Camera0
  /\ m_projection' = << 0, 0 >> /\ m_width' = 1 /\ m_height' = 1
  /\ m_openGLMesh' = NullMesh /\ m_halfEdgeMesh' = NullMesh
  /\ m_boundaries' = NoBoundaries /\ instanceMesh' = NullMesh /\ live' = {}
  /\ m_paused' = FALSE /\ m_buffer' = LightPass
  /\ textures' = [ t \in TextureNames |-> NoTexture ]
  /\ m_matrixBlock' = NoBlock /\ gl' = GLDefault /\ glEntry' = GLDefault
  /\ seen' = NoMeshView

\* sd, sl: what status() reports for m_deferredBuffer and m_lightBuffer
updateBackbuffer(w, h, sd, sl) ==
  IF IsFatal(sd)
  THEN qFatal(FatalMessage(sd), Wire(DeferredWiring, sd), m_lightBuffer,
              updateBackbufferCmds(sd, sl))
  ELSE IF IsFatal(sl)
  THEN qFatal(FatalMessage(sl), Wire(DeferredWiring, sd), Wire(LightWiring, sl),
              updateBackbufferCmds(sd, sl))
  ELSE /\ m_width' = IntToFloat(w)
       /\ m_height' = IntToFloat(h)
       /\ textures' = updateTextures(m_width', m_height')
       /\ m_deferredBuffer' = Wire(DeferredWiring, sd)
       /\ m_lightBuffer' = Wire(LightWiring, sl)
       /\ gl' = Issue(gl, updateBackbufferCmds(sd, sl))
       /\ cmds' = updateBackbufferCmds(sd, sl)
       /\ glEntry' = gl
       /\ m_projection' = << w, h >>
       /\ phase' = "running"
       /\ Called("resizeGL")
       /\ UNCHANGED << pc, loadVars, input, cameraVars, meshVars, m_paused,
                       m_buffer, m_matrixBlock, seen, fatal >>

\* status() of m_lightBuffer is asked only when m_deferredBuffer passed
ResizeGL(w, h, sd, sl) ==
  /\ phase \in { "initialized", "running" } /\ pc = "idle"
  /\ IsFatal(sd) => sl = "Complete"
  /\ updateBackbuffer(w, h, sd, sl)

(***************************************************************************)
(* MainWidget::paintGL.                                                    *)
(***************************************************************************)
Wrote(log, slot) == \E i \in 1..Len(log) : log[i].op = "ubo.write" /\ log[i].arg = slot

\* m_matrixBlock after the writes of a command log
BlockAfter(block, log, camera, cameraPrev) ==
  [ written |-> block.written \/ \E i \in 1..Len(log) : log[i].op = "ubo.write",
    worldToView |-> IF Wrote(log, "worldToView") THEN camera ELSE block.worldToView,
    prevWorldToView |->
      IF Wrote(log, "prevWorldToView") THEN cameraPrev ELSE block.prevWorldToView ]

paintGL ==
  /\ gl' = Issue(gl, paintGLCmds(m_paused, m_buffer))
  /\ cmds' = paintGLCmds(m_paused, m_buffer)
  /\ glEntry' = gl
  /\ m_matrixBlock' = BlockAfter(m_matrixBlock, cmds', m_camera, m_cameraPrev)
  /\ seen' = IF cmds' # << >>
             THEN MeshView(instanceMesh, m_openGLMesh, m_halfEdgeMesh, m_boundaries, live)
             ELSE seen
  /\ Called("paintGL")
  /\ UNCHANGED << phase, pc, loadVars, input, cameraVars, meshVars, targetVars,
                  m_paused, m_buffer, fatal >>

\* a paint event between handlers, or while the file dialog is open
PaintGL ==
  /\ phase = "running" /\ pc \in { "idle", "dialog" }
  /\ paintGL

\* a paint event delivered while openObj's loadObj is running
PaintGLNested ==
  /\ phase = "running" /\ pc \in LoadPcs /\ caller = "openObj"
  /\ paintGL

(***************************************************************************)
(* MainWidget::updateEvent and MainWidgetPrivate::openObj.                 *)
(***************************************************************************)
\* does updateEvent call openObj
OpensDialog(in) == in.ctrl /\ "O" \in in.keys

\* the update event up to the end, or up to the file dialog of openObj
UpdateEvent(in) ==
  /\ phase \in { "initialized", "running" } /\ pc = "idle"
  /\ m_cameraPrev' = snapshotCamera(m_camera, in)
  /\ m_camera' = MoveCamera(m_camera, in)
  /\ IF OpensDialog(in)
     THEN /\ pc' = "dialog"
          /\ input' = in
          /\ cmds' = updateEventCmds(in)
          /\ UNCHANGED m_buffer
     ELSE /\ pc' = "idle"
          /\ input' = NoInput
          /\ cmds' = updateEventCmds(in) \o updateTailCmds
          /\ m_buffer' = ChangeBuffer(m_buffer, in.keys, 0)
  /\ glEntry' = gl
  /\ Called("updateEvent")
  /\ UNCHANGED << phase, loadVars, meshVars, targetVars, m_paused, m_matrixBlock,
                  gl, seen, fatal >>

LoadsSelection_always(sel) == TRUE

\* does openObj call loadObj for what the dialog returned (0: null)
LoadsSelection(sel) == sel # 0

\* QFileDialog::getOpenFileName returns
DialogReturn(sel) ==
  /\ pc = "dialog"
  /\ fileName' = sel
  /\ caller' = "openObj"
  /\ pc' = IF LoadsSelection(sel) THEN "loadObj" ELSE "return"
  /\ UNCHANGED << phase, input, oldValue, cameraVars, meshVars, targetVars,
                  m_paused, m_buffer, m_matrixBlock, gl, cmds, glEntry, handler, seen, fatal >>

\* the rest of updateEvent, after openObj returned (paint events may have
\* come in between: the record of commands starts anew)
UpdateEventTail ==
  /\ pc = "return" /\ caller = "openObj"
  /\ m_buffer' = ChangeBuffer(m_buffer, input.keys, 0)
  /\ cmds' = updateTailCmds
  /\ glEntry' = gl
  /\ Called("updateEvent")
  /\ pc' = "idle"
  /\ caller' = "none"
  /\ input' = NoInput
  /\ UNCHANGED << phase, fileName, oldValue, cameraVars, meshVars, targetVars,
                  m_paused, m_matrixBlock, gl, seen, fatal >>

(***************************************************************************)
(* Specifications.                                                         *)
(***************************************************************************)
LoadObj ==
  \/ LoadObjPause
  \/ LoadObjDelete
  \/ LoadObjHalfEdgeMesh
  \/ LoadObjOpenGLMesh
  \/ LoadObjQuery
  \/ LoadObjResume

\* Frames, resizes and channel selection: update events bring numeric keys
Next ==
  \/ InitializeGL
  \/ InitializeGLTail
  \/ LoadObj
  \/ \E w \in Sizes, h \in Sizes, sd \in Status, sl \in Status : ResizeGL(w, h, sd, sl)
  \/ PaintGL
  \/ \E in \in KeyInputs : UpdateEvent(in)

Spec == Init /\ [][Next]_vars

\* Mesh reload: update events bring Ctrl+O. Handlers run to completion; only
\* the file dialog lets paint events in.
NextReload ==
  \/ InitializeGL
  \/ InitializeGLTail
  \/ LoadObj
  \/ \E w \in Dims, h \in Dims, sd \in Status, sl \in Status : ResizeGL(w, h, sd, sl)
  \/ PaintGL
  \/ \E in \in ReloadInputs \cup { NoInput } : UpdateEvent(in)
  \/ \E sel \in {0} \cup Files : DialogReturn(sel)
  \/ UpdateEventTail

SpecReload == Init /\ [][NextReload]_vars

\* as NextReload, and paint events also arrive while loadObj runs (the
\* frames "that arrive while paused")
NextReentrant ==
  \/ NextReload
  \/ PaintGLNested

SpecReentrant == Init /\ [][NextReentrant]_vars

\* Look and fly: update events bring the right button, the mouse and W, S
NextCamera ==
  \/ InitializeGL
  \/ InitializeGLTail
  \/ LoadObj
  \/ \E w \in Dims, h \in Dims, sd \in Status, sl \in Status : ResizeGL(w, h, sd, sl)
  \/ PaintGL
  \/ \E in \in CameraInputs : UpdateEvent(in)

SpecCamera == Init /\ [][NextCamera]_vars

\* Chords: update events bring several numeric keys at once
NextKeys ==
  \/ InitializeGL
  \/ InitializeGLTail
  \/ LoadObj
  \/ \E w \in Dims, h \in Dims, sd \in Status, sl \in Status : ResizeGL(w, h, sd, sl)
  \/ PaintGL
  \/ \E in \in ChordInputs : UpdateEvent(in)

SpecKeys == Init /\ [][NextKeys]_vars

(***************************************************************************)
(* Reading the record of a handler call.                                   *)
(***************************************************************************)
\* where in log the command (op, arg) stands
At(log, op, arg) == { i \in 1..Len(log) : log[i].op = op /\ log[i].arg = arg }

Once(log, op, arg) == Cardinality(At(log, op, arg)) = 1

First(S) == CHOOSE i \in S : \A j \in S : i <= j

Last(S) == CHOOSE i \in S : \A j \in S : j <= i

\* the commands that put something into the bound framebuffer
Draws(log) == { i \in 1..Len(log) : log[i].op \in { "group.draw", "mesh.draw", "glClear" } }

\* the commands of a frame pass
PassCmds(log) ==
  { i \in 1..Len(log) :
      log[i].op \in { "ubo.write", "group.update", "group.draw", "mesh.draw" } }

\* the pipeline state in which command i of the latest handler call was issued
StateAt(i) == Before(glEntry, cmds, i)

\* the latest handler call was a paintGL that executed a frame
FrameExecuted == handler = "paintGL" /\ cmds # << >>

\* this step is a call of paintGL
PaintStep == handler' = "paintGL" /\ pc' = pc

(***************************************************************************)
(* C1: whenever paintGL is called while m_paused is true, no pass          *)
(* executes: no command is issued, the pipeline state, the uniform block   *)
(* and the render targets stay as they are; and the dropped frame is not   *)
(* replayed: the commands of a frame appear only in a call of paintGL      *)
(* made while m_paused is false.                                           *)
(***************************************************************************)
C1_PausedFrameDropped ==
  [][ /\ (PaintStep /\ m_paused) =>
           /\ cmds' = << >>
           /\ gl' = gl
           /\ m_matrixBlock' = m_matrixBlock
           /\ seen' = seen
           /\ UNCHANGED targetVars
      /\ (cmds' # cmds /\ PassCmds(cmds') # {}) =>
           (PaintStep /\ ~m_paused)
    ]_vars

C1_Witness == handler = "paintGL" /\ m_paused /\ cmds = << >>

(***************************************************************************)
(* C2: in every executed frame each uniform write and each group's         *)
(* update() is issued once and before the G-buffer target is bound; the    *)
(* floor and instance groups are drawn once each, into the G-buffer        *)
(* target; the point lights, if drawn, are drawn once, after the geometry  *)
(* and into the light target; the full-screen quad is drawn once, last,    *)
(* into the default surface; so each update() precedes its draw().         *)
(***************************************************************************)
Groups == { "instanceGroup", "floorGroup", "pointLightGroup" }

C2_FrameOrder ==
  FrameExecuted =>
    LET prepared == { i \in 1..Len(cmds) : cmds[i].op \in { "ubo.write", "group.update" } }
        bindG    == At(cmds, "fbo.bind", "deferredBuffer")
        floor    == At(cmds, "group.draw", "floorGroup")
        inst     == At(cmds, "group.draw", "instanceGroup")
        lights   == At(cmds, "group.draw", "pointLightGroup")
        quad     == At(cmds, "mesh.draw", "quadGL")
    IN  /\ \A i \in 1..Len(MatrixBlockWrites) :
             Once(cmds, "ubo.write", MatrixBlockWrites[i].arg)
        /\ \A g \in Groups : Once(cmds, "group.update", g)
        /\ Cardinality(bindG) = 1 /\ Cardinality(floor) = 1
        /\ Cardinality(inst) = 1 /\ Cardinality(quad) = 1
        /\ Cardinality(lights) <= 1
        /\ \A i \in prepared : i < First(bindG)
        /\ \A i \in floor \cup inst :
             First(bindG) < i /\ StateAt(i).fbo = "deferredBuffer"
        /\ \A i \in lights :
             /\ Last(floor \cup inst) < i /\ i < First(quad)
             /\ StateAt(i).fbo = "lightBuffer"
        /\ Last(floor \cup inst) < First(quad)
        /\ StateAt(First(quad)).fbo = "default"
        /\ \A i \in Draws(cmds) : i <= First(quad)
        /\ \A g \in Groups :
             \A d \in At(cmds, "group.draw", g) : First(At(cmds, "group.update", g)) < d

C2_Witness ==
  /\ FrameExecuted
  /\ At(cmds, "group.draw", "pointLightGroup") # {}
  /\ At(cmds, "mesh.draw", "quadGL") # {}

(***************************************************************************)
(* C3: a frame binds or draws into the light target only when the selected *)
(* channel is LightPass (composed) or MotionBlurPass; for every other      *)
(* channel nothing is bound, cleared or drawn between the geometry pass    *)
(* and the present draw except the default surface.                        *)
(***************************************************************************)
LightTargetUse(log) ==
  At(log, "fbo.bind", "lightBuffer") \cup At(log, "group.draw", "pointLightGroup")
  \cup { i \in Draws(log) : StateAt(i).fbo = "lightBuffer" }

C3_LightPassOnlyWhenSelected ==
  FrameExecuted =>
    /\ LightTargetUse(cmds) # {} => m_buffer \in { LightPass, MotionBlurPass }
    /\ m_buffer \notin { LightPass, MotionBlurPass } =>
         /\ LightTargetUse(cmds) = {}
         /\ \A i \in Draws(cmds) \cup { j \in 1..Len(cmds) : cmds[j].op = "fbo.bind" } :
              ~ ( Last(At(cmds, "group.draw", "instanceGroup")) < i
                  /\ i < First(At(cmds, "mesh.draw", "quadGL")) )

C3_Witness ==
  /\ FrameExecuted
  /\ m_buffer = VelocityData
  /\ LightTargetUse(cmds) = {}
  /\ At(cmds, "mesh.draw", "quadGL") # {}

(***************************************************************************)
(* C4 (as the specification states it): a paintGL that executes a frame    *)
(* writes as previous camera the current camera written by the frame       *)
(* executed before it, and the first executed frame writes its own current *)
(* camera as previous camera. The code takes the snapshot in updateEvent,  *)
(* so the statement fails when a frame is painted twice after one update,  *)
(* when two updates come between two frames, and when the camera moves     *)
(* before the first frame.                                                 *)
(***************************************************************************)
C4_PrevIsPrecedingFrameCurrent ==
  [][ (PaintStep /\ cmds' # << >>) =>
        m_matrixBlock'.prevWorldToView =
          IF m_matrixBlock.written THEN m_matrixBlock.worldToView
          ELSE m_matrixBlock'.worldToView
    ]_vars

(***************************************************************************)
(* C5: m_cameraPrev changes only in updateEvent, where it takes the value  *)
(* m_camera had when the event began; the event assigns it once, as its    *)
(* first statement, before every rotate and translate of the camera; and   *)
(* paintGL never assigns it.                                               *)
(***************************************************************************)
CameraMoves(log) == { i \in 1..Len(log) : log[i].op \in { "camera.rotate", "camera.translate" } }

Assigns(log) == At(log, "assign", "m_cameraPrev = m_camera")

OneMesh(view) ==
  /\ view.instance = view.openGL
  /\ view.openGL = view.halfEdge
  /\ view.halfEdge.gen # 0
  /\ view.boundaries.gen = view.halfEdge.gen
  /\ view.boundaries.file = view.halfEdge.file
  /\ view.boundaries.edges = query(view.halfEdge.file)
  /\ << "OpenGLMesh", view.openGL.gen >> \in view.live
  /\ << "KHalfEdgeMesh", view.halfEdge.gen >> \in view.live

C6_ReloadAtomicForRenderer ==
  /\ FrameExecuted => OneMesh(seen)
  /\ seen # NoMeshView => OneMesh(seen)

C6_Witness ==
  /\ FrameExecuted
  /\ seen.halfEdge.file = 2
  /\ pc \in LoadPcs

(***************************************************************************)
(* C7: once resizeGL(w, h) has returned, each of the six textures is w     *)
(* wide and h high, w and h being the arguments of the latest resizeGL,    *)
(* and the status last reported for m_deferredBuffer and for m_lightBuffer *)
(* is Complete.                                                            *)
(***************************************************************************)
C7_TargetsShareSize ==
  phase = "running" =>
    /\ \A t \in TextureNames :
         textures[t].w = m_projection[1] /\ textures[t].h = m_projection[2]
    /\ m_projection[1] > 0 /\ m_projection[2] > 0
    /\ m_deferredBuffer.status = "Complete"
    /\ m_lightBuffer.status = "Complete"

C7_Witness ==
  /\ phase = "running" /\ handler = "resizeGL"
  /\ m_projection = << MaxWidgetSize, 1 >>
  /\ textures["depth"].w = MaxWidgetSize /\ textures["depth"].h = 1

(***************************************************************************)
(* C8: a status other than Complete reported for m_deferredBuffer or for   *)
(* m_lightBuffer is followed at once by qFatal with that status's message, *)
(* the last thing updateBackbuffer does; so a framebuffer whose last       *)
(* status was not Complete exists only in the fatal state, and every       *)
(* executed frame finds both framebuffers Complete.                        *)
(***************************************************************************)
Checked(fb) == fb.status # "unchecked"

C8_IncompleteIsFatal ==
  /\ \A fb \in { m_deferredBuffer, m_lightBuffer } :
       (Checked(fb) /\ fb.status # "Complete") => (phase = "fatal" /\ fatal # "")
  /\ handler = "resizeGL" =>
       \A i \in 1..Len(cmds) :
         (cmds[i].op = "fbo.status" /\ cmds[i].arg # "Complete") =>
           /\ i + 1 = Len(cmds)
           /\ cmds[i + 1].op = "qFatal" /\ cmds[i + 1].arg = fatal
           /\ fatal # "" /\ phase = "fatal"
  /\ FrameExecuted =>
       (m_deferredBuffer.status = "Complete" /\ m_lightBuffer.status = "Complete")

C8_Witness ==
  /\ phase = "fatal"
  /\ m_deferredBuffer.status = "Complete"
  /\ m_lightBuffer.status = "IncompleteReadBuffer"
  /\ fatal = "Incomplete Read Buffer"

(***************************************************************************)
(* C9: from the moment the file dialog returns null until openObj has      *)
(* returned, no step changes m_openGLMesh, m_halfEdgeMesh, the instance    *)
(* group's mesh, m_boundaries, the set of live mesh objects or m_paused,   *)
(* and the widget does not enter the fatal state.                          *)
(***************************************************************************)
C9_NullSelectionChangesNothing ==
  [][ (caller' = "openObj" /\ fileName' = 0) =>
        /\ UNCHANGED meshVars
        /\ m_paused' = m_paused
        /\ fatal' = fatal /\ phase' = phase
        /\ pc' \in { "return", "idle" }
    ]_vars

C9_Witness ==
  /\ pc = "return" /\ caller = "openObj" /\ fileName = 0
  /\ m_halfEdgeMesh.gen # 0

(***************************************************************************)
(* C10: loadObj saves m_paused and sets it before it deletes anything;     *)
(* m_paused is true at every statement of loadObj from the delete to the   *)
(* end; the last statement gives m_paused the saved value; and openObj     *)
(* with a null selection leaves m_paused alone.                            *)
(***************************************************************************)
Mutating == { "delete", "halfEdgeMesh", "openGLMesh", "query", "resume" }

C10_PauseHeldAndRestored ==
  [][ /\ pc' \in Mutating => m_paused'
      /\ (pc = "loadObj" /\ pc' = "delete") => oldValue' = m_paused
      /\ (pc \in Mutating /\ pc' \in Mutating) => oldValue' = oldValue
      /\ (pc = "resume" /\ pc' = "return") => m_paused' = oldValue
      /\ (pc = "dialog" /\ pc' = "return") => m_paused' = m_paused
      /\ (pc' \notin LoadPcs) => m_paused' = FALSE
    ]_vars

C10_Witness ==
  /\ pc = "return" /\ caller = "openObj" /\ fileName # 0
  /\ ~m_paused
  /\ m_halfEdgeMesh.file = fileName

(***************************************************************************)
(* C11: m_buffer is LightPass (the composed result) after construction; an *)
(* update event with exactly one numeric key held sets it to LightPass for *)
(* key 0 and, for keys 1..9, to depth, linear depth, position, normal,     *)
(* diffuse, specular, velocity, ambient, motion blur in this order; an     *)
(* update event with no numeric key held leaves it alone; and it changes   *)
(* in no step other than an update event with a numeric key held (not in   *)
(* paintGL, resizeGL, initializeGL or loadObj).                            *)
(***************************************************************************)
KeyChannel(key) ==
  CASE key = "0" -> LightPass
    [] key = "1" -> DepthData
    [] key = "2" -> LinearDepthData
    [] key = "3" -> PositionData
    [] key = "4" -> NormalData
    [] key = "5" -> DiffuseData
    [] key = "6" -> SpecularData
    [] key = "7" -> VelocityData
    [] key = "8" -> AmbientPass
    [] key = "9" -> MotionBlurPass

AllInputs == KeyInputs \cup ReloadInputs \cup CameraInputs \cup { NoInput }

C11_KeysSelectChannel ==
  /\ m_buffer = LightPass
  /\ [][ phase' # "fatal" =>
           /\ \A in \in AllInputs :
                (UpdateEvent(in) /\ ~OpensDialog(in)) =>
                  /\ \A d \in Digits :
                       in.keys \cap Digits = {d} => m_buffer' = KeyChannel(d)
                  /\ in.keys \cap Digits = {} => m_buffer' = m_buffer
           /\ m_buffer' # m_buffer =>
                /\ handler' = "updateEvent"
                /\ \/ \E in \in AllInputs : UpdateEvent(in) /\ in.keys \cap Digits # {}
                   \/ pc = "return" /\ input.keys \cap Digits # {}
       ]_vars

C11_Witness ==
  /\ handler = "updateEvent"
  /\ m_buffer = VelocityData
  /\ phase = "running"

(***************************************************************************)
(* C12: once loadObj has run its query, m_boundaries belongs to the mesh   *)
(* just loaded and has one entry for each of that mesh's half-edges with   *)
(* face 0, in their order, and nothing else; for the closed mesh it is     *)
(* empty; for the mesh with one open loop of n edges it has n entries, all *)
(* different, each a pair of neighbouring vertices of the loop, and every  *)
(* edge of the loop is one of them (n = 4: four entries). From the delete  *)
(* to the query the list is empty.                                         *)
(***************************************************************************)
\* the half-edges of a file that no face owns, in ascending order
Open(file) == { i \in 1..Len(halfEdges(file)) : halfEdges(file)[i].face = 0 }

Nth(S, n) == CHOOSE i \in S : Cardinality({ j \in S : j < i }) = n - 1

\* a and b are neighbours on a loop of the vertices 1..n
Neighbours(a, b, n) == a \in 1..n /\ b \in 1..n /\ ((a % n) + 1 = b \/ (b % n) + 1 = a)

Queried == m_halfEdgeMesh.gen # 0 /\ pc \notin { "delete", "halfEdgeMesh", "openGLMesh", "query" }

C12_BoundariesOfLoadedMesh ==
  /\ pc \in { "halfEdgeMesh", "openGLMesh", "query" } => m_boundaries.edges = << >>
  /\ Queried =>
       LET file  == m_halfEdgeMesh.file
           edges == m_boundaries.edges
           n     == file + 2
       IN  /\ m_boundaries.gen = m_halfEdgeMesh.gen
           /\ Len(edges) = Cardinality(Open(file))
           /\ \A i \in 1..Len(edges) :
                LET e == halfEdges(file)[Nth(Open(file), i)]
                IN  edges[i] = << e.to, halfEdges(file)[e.next].to >>
           /\ file = 1 => edges = << >>
           /\ file > 1 =>
                /\ Len(edges) = n
                /\ \A i \in 1..n : Neighbours(edges[i][1], edges[i][2], n)
                /\ { { edges[i][1], edges[i][2] } : i \in 1..n }
                     = { { v, (v % n) + 1 } : v \in 1..n }
           /\ file = 2 => Len(edges) = 4

C12_Witness ==
  /\ pc = "return" /\ caller = "openObj"
  /\ m_halfEdgeMesh.file = 2
  /\ Len(m_boundaries.edges) = 4
  /\ m_boundaries.gen = m_halfEdgeMesh.gen

(***************************************************************************)
(* C13 (as the specification states it): an update event that selects the  *)
(* channel already selected leaves m_buffer, the pipeline state and the    *)
(* render targets as they are; and of two frames executed one after the    *)
(* other with nothing in between (same selection, same scene) the second   *)
(* issues the same commands, binds the same programs, and makes each of    *)
(* its draws in the same pipeline state, over the same uniform block, mesh *)
(* and targets, as the first: the presented image is the same. The code    *)
(* leaves the depth comparison function at LESS after a light pass, where  *)
(* initializeGL had set LEQUAL: the first frame with a light pass draws    *)
(* its geometry under LEQUAL, the next one under LESS.                     *)
(***************************************************************************)
\* what of a pipeline state bears on a draw: the blend factors count only
\* with blending on, the depth comparison only with the depth test on
Effective(g) ==
  [ g EXCEPT !.blendFunc = IF g.blend THEN @ ELSE "unused",
             !.depthFunc = IF g.depthTest THEN @ ELSE "unused" ]

\* the pipeline state in which each draw of a handler call is made
DrawStates(entry, log) ==
  [ i \in 1..Len(log) |->
      IF i \in Draws(log) THEN Effective(Before(entry, log, i)) ELSE GLDefault ]

C13_SameSelectionSameFrame ==
  [][ /\ \A in \in AllInputs : \A d \in Digits :
           ( /\ UpdateEvent(in) /\ ~OpensDialog(in)
             /\ in.keys \cap Digits = {d}
             /\ m_buffer = KeyChannel(d) ) =>
             /\ m_buffer' = m_buffer
             /\ gl' = gl
             /\ UNCHANGED targetVars
      /\ (FrameExecuted /\ PaintStep /\ cmds' # << >>) =>
           /\ cmds' = cmds
           /\ m_matrixBlock' = m_matrixBlock
           /\ seen' = seen
           /\ UNCHANGED targetVars
           /\ DrawStates(glEntry', cmds') = DrawStates(glEntry, cmds)
    ]_vars

(***************************************************************************)
(* C14: a step that changes m_buffer leaves the six textures, both         *)
(* framebuffers with their attachments, m_width, m_height and the pipeline *)
(* state as they are, and neither updateEvent nor paintGL ever allocates a *)
(* texture or attaches one; the frame that follows binds, for its quad     *)
(* draw, the deferred program of the selected channel, and but for that    *)
(* program and for the light pass it issues the same commands as the frame *)
(* of any other channel.                                                   *)
(***************************************************************************)
Rebuilds(log) ==
  { i \in 1..Len(log) : log[i].op \in { "texture.allocate", "fbo.attach", "fbo.status" } }

Channels == 0..(DeferredDataCount - 1)

DeferredProgramNames == { fragFiles[b + 1] : b \in Channels }

\* is command i of log part of the light pass (from the bind of
\* m_lightBuffer to the bind of the default surface that ends it)
InLightPass(log, i) ==
  LET L == At(log, "fbo.bind", "lightBuffer")
  IN  /\ L # {}
      /\ First(L) <= i
      /\ i <= First({ j \in At(log, "glBindFramebuffer", "default") : j > First(L) })

Indexed(log) == [ i \in 1..Len(log) |-> [ i |-> i, c |-> log[i] ] ]

KeepInSkeleton(log, x) ==
  /\ ~InLightPass(log, x.i)
  /\ ~(x.c.op \in { "program.bind", "program.release" } /\ x.c.arg \in DeferredProgramNames)

\* a frame's commands without the light pass and the deferred program
Skeleton(log) ==
  LET kept == SelectSeq(Indexed(log), LAMBDA x : KeepInSkeleton(log, x))
  IN  [ k \in 1..Len(kept) |-> kept[k].c ]

FramesDifferByProgramOnly ==
  /\ handler \in { "updateEvent", "paintGL" } => Rebuilds(cmds) = {}
  /\ FrameExecuted =>
       /\ StateAt(First(At(cmds, "mesh.draw", "quadGL"))).program = fragFiles[m_buffer + 1]
       /\ \A b \in Channels : Skeleton(cmds) = Skeleton(paintFrame(b))

C14_ChannelSwitchKeepsTargets ==
  /\ []FramesDifferByProgramOnly
  /\ [][ (m_buffer' # m_buffer /\ phase' # "fatal") =>
            /\ UNCHANGED targetVars
            /\ gl' = gl
            /\ Rebuilds(cmds') = {}
        ]_vars

C14_Witness ==
  /\ FrameExecuted
  /\ m_buffer = NormalData
  /\ StateAt(First(At(cmds, "mesh.draw", "quadGL"))).program = "normal"
  /\ textures["depth"].w = 2 /\ textures["depth"].h = 1

(***************************************************************************)
(* C15: whenever updateBackbuffer has returned, and so in every executed   *)
(* frame, m_deferredBuffer has the back-buffer and the deferred textures   *)
(* 0..3 on its colour attachments 0..4, the depth texture on its depth     *)
(* attachment and all five colour attachments as draw buffers, and         *)
(* m_lightBuffer has deferred texture 3 on colour attachment 0 and the     *)
(* same depth texture on its depth attachment; every resizeGL that returns *)
(* has allocated the six textures and attached both framebuffers anew.     *)
(***************************************************************************)
GBufferWired ==
  /\ m_deferredBuffer.color =
       << "backBuffer", "deferred0", "deferred1", "deferred2", "deferred3" >>
  /\ m_deferredBuffer.depth = "depth"
  /\ m_deferredBuffer.drawBuffers = { 0, 1, 2, 3, 4 }

LightTargetWired ==
  /\ m_lightBuffer.color[1] = "deferred3"
  /\ \A a \in 2..5 : m_lightBuffer.color[a] = "none"
  /\ m_lightBuffer.depth = "depth"
  /\ m_lightBuffer.depth = m_deferredBuffer.depth

C15_FramebufferWiring ==
  /\ phase = "running" => (GBufferWired /\ LightTargetWired)
  /\ FrameExecuted => (GBufferWired /\ LightTargetWired)
  /\ (handler = "resizeGL" /\ phase = "running") =>
       /\ \A t \in TextureNames : Once(cmds, "texture.allocate", t)
       /\ Once(cmds, "fbo.attach", "deferredBuffer")
       /\ Once(cmds, "fbo.attach", "lightBuffer")
       /\ \A t \in TextureNames :
            First(At(cmds, "texture.allocate", t)) < First(At(cmds, "fbo.attach", "deferredBuffer"))

C15_Witness ==
  /\ phase = "running" /\ handler = "resizeGL"
  /\ m_projection = << 2, 2 >>
  /\ GBufferWired /\ LightTargetWired

(***************************************************************************)
(* C16: every executed frame whose selected channel is LightPass (the      *)
(* composed result) or MotionBlurPass binds m_lightBuffer, clears it and   *)
(* draws the point-light group into it, all before the quad draw of the    *)
(* same frame.                                                             *)
(***************************************************************************)
C16_LightPassRunsWhenNeeded ==
  (FrameExecuted /\ m_buffer \in { LightPass, MotionBlurPass }) =>
    LET bind  == At(cmds, "fbo.bind", "lightBuffer")
        clear == At(cmds, "glClear", "COLOR")
        draw  == At(cmds, "group.draw", "pointLightGroup")
        quad  == At(cmds, "mesh.draw", "quadGL")
    IN  /\ Cardinality(bind) = 1 /\ Cardinality(clear) = 1
        /\ Cardinality(draw) = 1 /\ Cardinality(quad) = 1
        /\ First(bind) < First(clear)
        /\ First(clear) < First(draw)
        /\ First(draw) < First(quad)
        /\ StateAt(First(clear)).fbo = "lightBuffer"
        /\ StateAt(First(draw)).fbo = "lightBuffer"
        /\ StateAt(First(draw)).program = "pointLight"

C16_Witness ==
  /\ FrameExecuted
  /\ m_buffer = MotionBlurPass
  /\ At(cmds, "group.draw", "pointLightGroup") # {}
  /\ StateAt(First(At(cmds, "mesh.draw", "quadGL"))).program = "motion"

(***************************************************************************)
(* C17: in every executed frame, with or without a light pass, the quad is *)
(* drawn with the default framebuffer bound: after the last draw into      *)
(* m_deferredBuffer, and after the draw into m_lightBuffer if there is     *)
(* one, the default framebuffer is bound before the quad draw, nothing     *)
(* binds another framebuffer afterwards, and the frame ends with the       *)
(* default framebuffer bound.                                              *)
(***************************************************************************)
Binds(log) ==
  { i \in 1..Len(log) : log[i].op \in { "fbo.bind", "fbo.release", "glBindFramebuffer" } }

C17_PresentOnDefaultSurface ==
  FrameExecuted =>
    LET quad    == First(At(cmds, "mesh.draw", "quadGL"))
        unbinds == At(cmds, "glBindFramebuffer", "default")
        geom    == Last(At(cmds, "group.draw", "floorGroup")
                        \cup At(cmds, "group.draw", "instanceGroup"))
        lights  == At(cmds, "group.draw", "pointLightGroup")
    IN  /\ StateAt(quad).fbo = "default"
        /\ \E u \in unbinds : geom < u /\ u < quad
                              /\ StateAt(u).fbo = "deferredBuffer"
        /\ \A l \in lights : \E u \in unbinds : l < u /\ u < quad
                                                /\ StateAt(u).fbo = "lightBuffer"
        /\ Last(Binds(cmds)) \in unbinds
        /\ Last(Binds(cmds)) < quad
        /\ gl.fbo = "default"

C17_Witness ==
  /\ FrameExecuted
  /\ At(cmds, "group.draw", "pointLightGroup") # {}
  /\ StateAt(First(At(cmds, "mesh.draw", "quadGL"))).fbo = "default"
  /\ gl.fbo = "default"

(***************************************************************************)
(* C18 (as the specification states it): when the point-light group is     *)
(* drawn, the depth test is enabled with comparison GREATER, depth writes  *)
(* are off, and blending is on with factors ONE, ONE. In the code          *)
(* drawBackbuffer disables the depth test first and enables it again only  *)
(* at its end, so the draw is made with the depth test off and the         *)
(* comparison GREATER has no effect.                                       *)
(***************************************************************************)
C18_LightDrawState ==
  FrameExecuted =>
    \A l \in At(cmds, "group.draw", "pointLightGroup") :
      /\ StateAt(l).depthTest
      /\ StateAt(l).depthFunc = "GREATER"
      /\ ~StateAt(l).depthMask
      /\ StateAt(l).blend
      /\ StateAt(l).blendFunc = "ONE,ONE"

(***************************************************************************)
(* C19 (as the specification states it): from the moment loadObj sets out  *)
(* to construct the new mesh until it has queried the boundaries, the old  *)
(* OpenGLMesh and KHalfEdgeMesh are deleted and the old boundary list is   *)
(* gone, and neither m_openGLMesh, m_halfEdgeMesh nor the instance group's *)
(* mesh names a deleted object. In the code the deletes come first, but    *)
(* the three pointers keep naming the deleted objects until each is        *)
(* assigned anew: the instance group's mesh until setMesh, after the new   *)
(* half-edge mesh has been constructed.                                    *)
(***************************************************************************)
Constructing == pc \in { "halfEdgeMesh", "openGLMesh", "query" }

\* a pointer that names an object already deleted
Dangles(ptr, class) == ptr.gen # 0 /\ << class, ptr.gen >> \notin live

\* the objects made so far by the load under way
MadeByThisLoad ==
  IF pc = "halfEdgeMesh" THEN {}
  ELSE IF pc = "openGLMesh" THEN { << "KHalfEdgeMesh", m_halfEdgeMesh.gen >> }
  ELSE { << "KHalfEdgeMesh", m_halfEdgeMesh.gen >>, << "OpenGLMesh", m_openGLMesh.gen >> }

OldMeshDeleted ==
  Constructing => (live = MadeByThisLoad /\ m_boundaries = NoBoundaries)

C19_OldMeshRetired ==
  /\ OldMeshDeleted
  /\ Constructing =>
       /\ ~Dangles(m_openGLMesh, "OpenGLMesh")
       /\ ~Dangles(m_halfEdgeMesh, "KHalfEdgeMesh")
       /\ ~Dangles(instanceMesh, "OpenGLMesh")

(***************************************************************************)
(* What a draw or clear writes and what a draw can read.                   *)
(***************************************************************************)
\* the framebuffer object a binding names (the default surface has no
\* texture attached)
BoundFramebuffer(name) ==
  IF name = "deferredBuffer" THEN m_deferredBuffer
  ELSE IF name = "lightBuffer" THEN m_lightBuffer
  ELSE NoFramebuffer

\* the textures command i of the latest handler call writes colour to
ColorWrites(i) ==
  LET fb == BoundFramebuffer(StateAt(i).fbo)
  IN  { fb.color[a + 1] : a \in fb.drawBuffers } \ { "none" }

\* the draws and clears of the geometry pass
GeometryWrites == { i \in Draws(cmds) : StateAt(i).fbo = "deferredBuffer" }

\* the draws and clears of the light pass
LightWrites == { i \in Draws(cmds) : StateAt(i).fbo = "lightBuffer" }

\* the texture units bound when command i is issued
BoundForReading(i) == { j \in 1..(i - 1) : cmds[j].op = "texture.bind" }

(***************************************************************************)
(* C20 (as the specification states it): m_deferredBuffer has one depth    *)
(* attachment and at most DEFERRED_TEXTURES = 4 colour attachments enabled *)
(* as draw buffers in the geometry pass, and the back-buffer texture is    *)
(* written by the light pass only.                                         *)
(***************************************************************************)
C20_FourDrawBuffers ==
  FrameExecuted =>
    /\ m_deferredBuffer.depth = "depth"
    /\ \A i \in GeometryWrites : Cardinality(ColorWrites(i)) <= DEFERRED_TEXTURES
    /\ \A i \in Draws(cmds) : "backBuffer" \in ColorWrites(i) => i \in LightWrites

(***************************************************************************)
(* C20 (amended): m_deferredBuffer has one depth attachment, the depth     *)
(* texture, and five colour attachments enabled as draw buffers in the     *)
(* geometry pass: the back-buffer and the four deferred textures. The      *)
(* back-buffer is written by the clear and the draws of the geometry pass  *)
(* and by nothing else; the light pass writes deferred texture 3 only;     *)
(* the quad draw writes no texture, and the back-buffer is bound for       *)
(* reading from before the light pass to after the quad draw.              *)
(***************************************************************************)
C20_FiveDrawBuffers ==
  FrameExecuted =>
    /\ m_deferredBuffer.depth = "depth"
    /\ Cardinality({ a \in 1..5 : m_deferredBuffer.color[a] # "none" }) = DEFERRED_TEXTURES + 1
    /\ GeometryWrites # {}
    /\ \A i \in GeometryWrites :
         ColorWrites(i) = { "backBuffer", "deferred0", "deferred1", "deferred2", "deferred3" }
    /\ \A i \in Draws(cmds) : "backBuffer" \in ColorWrites(i) <=> i \in GeometryWrites
    /\ \A i \in LightWrites : ColorWrites(i) = { "deferred3" }
    /\ ColorWrites(First(At(cmds, "mesh.draw", "quadGL"))) = {}
    /\ \A i \in LightWrites \cup At(cmds, "mesh.draw", "quadGL") :
         /\ \E j \in BoundForReading(i) : cmds[j].arg = "3:backBuffer"
         /\ \A r \in At(cmds, "texture.release", "backBuffer") : i < r
         /\ \A g \in GeometryWrites : g < i

C20_Witness ==
  /\ FrameExecuted
  /\ LightWrites # {}
  /\ \A i \in LightWrites : ColorWrites(i) = { "deferred3" }
  /\ \E i \in GeometryWrites : Cardinality(ColorWrites(i)) = 5 /\ "backBuffer" \in ColorWrites(i)

(***************************************************************************)
(* C21: when handlers run one at a time (a paint event comes between       *)
(* handlers or while the file dialog is open, never inside loadObj),       *)
(* m_paused is false when paintGL, updateEvent, resizeGL or initializeGL   *)
(* is entered: it is false after construction, turns true only in the      *)
(* first statement of loadObj, and the last statement of loadObj gives it  *)
(* back the value found on entry, which is false; so every call of paintGL *)
(* executes a frame.                                                       *)
(***************************************************************************)
\* this step enters the handler h
Enters(h) ==
  /\ handler' = h
  /\ CASE h = "paintGL" -> PaintStep /\ pc \in { "idle", "dialog" }
       [] h = "initializeGL" -> pc = "idle" /\ pc' = "loadObj"
       [] OTHER -> pc = "idle"

C21_NotPausedAtHandlerEntry ==
  /\ ~m_paused
  /\ []((pc \in { "idle", "dialog", "loadObj", "return" }) => ~m_paused)
  /\ [][ /\ \A h \in { "paintGL", "updateEvent", "resizeGL", "initializeGL" } :
              Enters(h) => ~m_paused
         /\ (m_paused' /\ ~m_paused) => (pc = "loadObj" /\ pc' = "delete")
         /\ (pc = "loadObj" /\ pc' = "delete") => ~oldValue'
         /\ (pc = "resume" /\ pc' = "return") => (m_paused' = oldValue /\ ~m_paused')
         /\ PaintStep => (~m_paused /\ cmds' # << >>)
       ]_vars

C21_Witness ==
  /\ FrameExecuted
  /\ pc = "idle" /\ ~m_paused
  /\ m_halfEdgeMesh.file = 2
  /\ seen.halfEdge.file = 2

(***************************************************************************)
(* C22: in every reachable state, whatever numeric keys the update events  *)
(* brought, m_buffer is an index of m_deferredPrograms (0 <= m_buffer <    *)
(* DeferredDataCount), and the program an executed frame binds for its     *)
(* quad draw is m_deferredPrograms[m_buffer], one of the programs          *)
(* initializeGL created, initializeGL having returned before the frame.    *)
(***************************************************************************)
\* the programs initializeGL has created and set up
InitializedPrograms ==
  { initializeGLCmds[i].arg :
      i \in { j \in 1..Len(initializeGLCmds) : initializeGLCmds[j].op = "program.bind" } }

C22_ChannelIndexesProgramTable ==
  /\ 0 <= m_buffer /\ m_buffer < DeferredDataCount
  /\ m_buffer + 1 \in DOMAIN fragFiles
  /\ \A keys \in SUBSET Digits :
       ChangeBuffer(m_buffer, keys, 0) \in 0..(DeferredDataCount - 1)
  /\ FrameExecuted =>
       LET quad == First(At(cmds, "mesh.draw", "quadGL"))
       IN  /\ phase = "running"
           /\ StateAt(quad).program = fragFiles[m_buffer + 1]
           /\ StateAt(quad).program \in InitializedPrograms
           /\ StateAt(quad).program \in DeferredProgramNames

C22_Witness ==
  /\ FrameExecuted
  /\ m_buffer = MotionBlurPass
  /\ StateAt(First(At(cmds, "mesh.draw", "quadGL"))).program = "motion"
  /\ m_projection = << 1, 2 >>

(***************************************************************************)
(* C23: an update event with several numeric keys held leaves m_buffer at  *)
(* the channel of the highest-numbered key held (9 over 8 over ... over 1  *)
(* over 0), whatever m_buffer was before: the ten tests run in the order   *)
(* key 0, key 1, ..., key 9 and the last assignment stands. Key 0          *)
(* (LightPass, the composed result) loses to every other numeric key.      *)
(***************************************************************************)
\* the number of the highest numeric key among keys
HighestKey(keys) ==
  CHOOSE n \in 0..9 :
    /\ DigitKeys[n + 1] \in keys
    /\ \A j \in 0..9 : DigitKeys[j + 1] \in keys => j <= n

\* the Change Buffer block, run from the channel now selected, ends at the
\* channel of the highest key of every chord
HighestKeyWins ==
  \A keys \in (SUBSET Digits) \ { {} } :
    /\ ChangeBuffer(m_buffer, keys, 0) = KeyChannel(DigitKeys[HighestKey(keys) + 1])
    /\ ("0" \in keys /\ keys # { "0" }) => ChangeBuffer(m_buffer, keys, 0) # LightPass

C23_HighestKeyWins ==
  /\ []HighestKeyWins
  /\ [][ (handler' = "updateEvent" /\ pc = "idle") =>
           \A in \in ChordInputs :
             (UpdateEvent(in) /\ in.keys # {}) =>
               /\ m_buffer' = KeyChannel(DigitKeys[HighestKey(in.keys) + 1])
               /\ ("0" \in in.keys /\ in.keys # { "0" }) => m_buffer' # LightPass
       ]_vars

C23_Witness ==
  /\ handler = "updateEvent" /\ phase = "running"
  /\ m_buffer = AmbientPass
  /\ ChangeBuffer(m_buffer, { "0", "3", "5" }, 0) = DiffuseData
  /\ ChangeBuffer(DiffuseData, { "0", "8" }, 0) = m_buffer

(***************************************************************************)
(* C24: every executed frame ends with the depth test enabled, depth       *)
(* writes enabled and blending disabled, and so does initializeGL; hence   *)
(* every clear and draw of the geometry pass is made with the depth test   *)
(* and depth writes on and blending off. The depth comparison is not given *)
(* back its initial value: it is LEQUAL, as initializeGL set it, up to and *)
(* including the geometry pass of the first frame that runs the light      *)
(* pass; that frame leaves it LESS, and it is LESS from then on, in every  *)
(* geometry pass that follows.                                             *)
(***************************************************************************)
\* depth test on, depth writes on, blending off
GeometryState(g) == g.depthTest /\ g.depthMask /\ ~g.blend

RanLightPass(log) == At(log, "group.draw", "pointLightGroup") # {}

FrameLeavesGeometryState ==
  /\ (phase \in { "initialized", "running" } /\ pc = "idle") =>
       (GeometryState(gl) /\ gl.depthFunc \in { "LEQUAL", "LESS" })
  /\ FrameExecuted =>
       /\ GeometryState(gl)
       /\ GeometryWrites # {}
       /\ \A i \in GeometryWrites :
            /\ GeometryState(StateAt(i))
            /\ StateAt(i).depthFunc = glEntry.depthFunc
            /\ glEntry.depthFunc \in { "LEQUAL", "LESS" }
       /\ gl.depthFunc = IF RanLightPass(cmds) THEN "LESS" ELSE glEntry.depthFunc

C24_DepthFuncNotRestored ==
  /\ []FrameLeavesGeometryState
  /\ [][ (phase # "constructed" /\ phase' # "fatal") =>
           /\ gl.depthFunc = "LESS" => gl'.depthFunc = "LESS"
           /\ gl'.depthFunc # gl.depthFunc =>
                /\ PaintStep /\ RanLightPass(cmds')
                /\ gl.depthFunc = "LEQUAL" /\ gl'.depthFunc = "LESS"
           /\ (PaintStep /\ RanLightPass(cmds')) => gl'.depthFunc = "LESS"
           /\ (PaintStep /\ cmds' # << >> /\ ~RanLightPass(cmds')) =>
                gl'.depthFunc = gl.depthFunc
       ]_vars

C24_Witness ==
  /\ FrameExecuted
  /\ ~RanLightPass(cmds)
  /\ m_buffer = NormalData
  /\ glEntry.depthFunc = "LESS"
  /\ \A i \in GeometryWrites : StateAt(i).depthFunc = "LESS" /\ GeometryState(StateAt(i))

====
